---- MODULE Spec2Model ----
(***************************************************************************)
(* Model of stream_alert/alert_processor/output_base.py: the credential    *)
(* resolution pipeline of StreamOutputBase (_local_temp_dir, _load_creds,  *)
(* _get_creds_from_s3, _kms_decrypt) over a shared local cache directory,  *)
(* and the HTTP helper _request_helper.                                    *)
(*                                                                         *)
(* A call of _load_creds is a sequence of steps, one per system call or    *)
(* remote call, so that calls of several dispatchers can interleave.       *)
(* Spec runs one call at a time; SpecConc lets the calls interleave.       *)
(***************************************************************************)
EXTENDS Integers, FiniteSets, Sequences, TLC

\* ---------------------------------------------------------------- bounds
NumProcs == 2
\* most parts a deployment qualifier is put together from
MaxParts == 3

Procs == 1..NumProcs

\* ---------------------------------------------------------------- inputs
\* __service__ of the concrete output and the descriptors it is called with
Service == "slack"
Descriptors == {"", "alerts"}

EmptyMap == [k \in {} |-> 0]

\* Python values returned by _load_creds: None, a dict, or a list (json.loads
\* of a plaintext that is a JSON array)
NoneVal == [type |-> "none", items |-> EmptyMap]
Dict(m) == [type |-> "dict", items |-> m]
ListVal == [type |-> "list", items |-> EmptyMap]
\* the response handle urlopen returns
Response(code) == [type |-> "response", items |-> ("code" :> code)]

\* how a call of a method ends
Running == [kind |-> "running", exc |-> "", value |-> NoneVal]
Returned(v) == [kind |-> "returned", exc |-> "", value |-> v]
Raised(e) == [kind |-> "raised", exc |-> e, value |-> NoneVal]

\* what get_default_properties of the concrete output returns
DefaultChoices == {NoneVal, Dict(EmptyMap), Dict("b" :> 9)}

\* the decrypted plaintexts the key-management service can hold for a blob
Plaintexts ==
    { [form |-> "object", obj |-> ("a" :> 1) @@ ("b" :> 2)],
      [form |-> "array", obj |-> EmptyMap],
      [form |-> "invalid", obj |-> EmptyMap],
      [form |-> "empty", obj |-> EmptyMap] }

\* replies of client.decrypt: the plaintext, a botocore ClientError, or an
\* error that is not a ClientError (connection failure)
KmsReplies ==
    { [kind |-> "plaintext", text |-> t] : t \in Plaintexts }
    \cup { [kind |-> k, text |-> [form |-> "empty", obj |-> EmptyMap]]
             : k \in {"ClientError", "OtherError"} }

\* results of client.download_fileobj
S3Results == {"ok", "ClientError", "OtherError"}

\* ---------------------------------------------------------------- state
VARIABLES
    tempDir,    \* what is at <tmp>/stream_alert_secrets: "absent", "file", "dir"
    files,      \* cached file per credential name: "absent", "empty", "blob"
    defaults,   \* get_default_properties() of the output
    kmsReply,   \* what client.decrypt answers for the full blob
    pc,         \* position of each dispatcher inside _load_creds
    desc,       \* descriptor argument of the running call
    before,     \* tempDir when the call began
    seen,       \* content found by os.path.exists at line 85
    s3res,      \* result of the download attempt of this call
    fetches,    \* download attempts made by this call
    logs,       \* LOGGER.error lines written by this call
    outcome,    \* how the call ended
    request,    \* the last _request_helper call and how it ended
    path,       \* file name of local_cred_location under the cache directory
    s3key,      \* Key handed to download_fileobj by this call
    decrypts,   \* client.decrypt attempts made by this call
    helper      \* the last call of a stateless helper method: <<name, arguments, result>>

vars == <<tempDir, files, defaults, kmsReply, pc, desc, before, seen, s3res,
          fetches, logs, outcome, request, path, s3key, decrypts, helper>>

envVars == <<defaults, kmsReply, request, helper>>
callVars == <<desc, before, seen, s3res, fetches, logs, path, s3key, decrypts>>

\* ---------------------------------------------------------------- helpers
\* dict.update
DictUpdate(m, d) ==
    [k \in (DOMAIN m) \cup (DOMAIN d) |-> IF k \in DOMAIN d THEN d[k] ELSE m[k]]

\* truth value of a Python value in `if x:`
Truthy(v) == v.type # "none" /\ v.items # EmptyMap

\* a descriptor argument that is None
NoDescriptor == "<None>"

\* __service__ values of concrete outputs, and descriptor arguments
Services == {"slack", "aws-s3"}
DescriptorArgs == Descriptors \cup {NoDescriptor, "ops"}

\* the `if descriptor` test of line 134 left out
CredNameAlways(service, descriptor) ==
    service \o "_" \o descriptor

\* output_cred_name lines 131-137 for an output whose __service__ is service:
\* str(service), and '{}_{}'.format(cred_name, descriptor) when the
\* descriptor is truthy
CredName(service, descriptor) ==
    IF descriptor # NoDescriptor /\ descriptor # ""
    THEN service \o "_" \o descriptor
    ELSE service

OutputCredName(descriptor) == CredName(Service, descriptor)

CredNames == { OutputCredName(d) : d \in Descriptors }

\* open(path, mode) on a path of the cache directory: the content afterwards
OpenFile(mode, content) ==
    IF mode = "wb" THEN "empty" ELSE content

\* file.read() on a handle opened with mode: the bytes, or IOError when the
\* handle is not open for reading
FileRead(mode, content) ==
    IF mode = "rb"
    THEN [raised |-> FALSE, data |-> content]
    ELSE [raised |-> TRUE, data |-> "empty"]

\* the mode _load_creds opens the cached file with
ReadOpenMode == "wb"

\* _kms_decrypt(data): the plaintext, None after logging a ClientError, or
\* the error that is not a ClientError
KmsDecrypt(data, reply) ==
    LET r == IF data = "blob" THEN reply
             ELSE [kind |-> "ClientError", text |-> reply.text]
    IN  CASE r.kind = "plaintext" ->
               [out |-> "ok", text |-> r.text, logs |-> 0]
          [] r.kind = "ClientError" ->
               [out |-> "none", text |-> r.text, logs |-> 1]
          [] OTHER ->
               [out |-> "raised", text |-> r.text, logs |-> 0]

\* json.loads
JsonLoads(text) ==
    CASE text.form = "object" -> Returned(Dict(text.obj))
      [] text.form = "array" -> Returned(ListVal)
      [] OTHER -> Raised("ValueError")

\* lines 92-105 of _load_creds: decrypt, parse, overlay the defaults
LoadCredsTail(enc_creds, reply, dflt) ==
    LET dec == KmsDecrypt(enc_creds, reply)
        parsed == JsonLoads(dec.text)
    IN  CASE dec.out = "raised" -> [out |-> Raised("BotoCoreError"), logs |-> 0]
          [] dec.out = "none" -> [out |-> Returned(NoneVal), logs |-> dec.logs]
          [] dec.text.form = "empty" -> [out |-> Returned(NoneVal), logs |-> 0]
          [] parsed.kind = "raised" -> [out |-> parsed, logs |-> 0]
          [] ~Truthy(dflt) -> [out |-> parsed, logs |-> 0]
          [] parsed.value.type = "list" ->
               [out |-> Raised("AttributeError"), logs |-> 0]
          [] OTHER ->
               [out |-> Returned(Dict(DictUpdate(parsed.value.items, dflt.items))),
                logs |-> 0]

\* ------------------------------------------------------- _format_prefix
\* the token _format_prefix takes out of the qualifier
InfraToken == "_streamalert_alert_processor"

\* the pieces qualifiers are put together from: names, the token, and the two
\* halves of the token (which form a token again once a token between them
\* is taken out)
QualifierParts == {"prod", "_east", InfraToken, "_streamalert_alert", "_processor"}

RECURSIVE Join(_)
Join(parts) ==
    IF parts = <<>> THEN "" ELSE Head(parts) \o Join(Tail(parts))

Qualifiers ==
    { Join(ps) : ps \in UNION { [1..n -> QualifierParts] : n \in 0..MaxParts } }

\* str.replace(old, new, count) for a non-empty old: one pass from the left
\* over non-overlapping occurrences, at most count of them (count < 0: all)
RECURSIVE StrReplace(_, _, _, _)
StrReplace(s, old, new, count) ==
    IF count = 0 \/ Len(s) < Len(old)
    THEN s
    ELSE IF SubSeq(s, 1, Len(old)) = old
         THEN new \o StrReplace(SubSeq(s, Len(old) + 1, Len(s)), old, new,
                                 IF count < 0 THEN count ELSE count - 1)
         ELSE SubSeq(s, 1, 1) \o StrReplace(SubSeq(s, 2, Len(s)), old, new, count)

\* the same method with the token taken out once only
FormatPrefixOnce(s3_prefix) ==
    StrReplace(StrReplace(s3_prefix, InfraToken, "", 1), "_", ".", -1)

\* _format_prefix(s3_prefix), lines 199-200
FormatPrefix(s3_prefix) ==
    StrReplace(StrReplace(s3_prefix, InfraToken, "", -1), "_", ".", -1)

\* --------------------------------------------------- get_config_service
\* the NotImplemented singleton, and a class attribute a variant leaves out
NotImplementedV == "<NotImplemented>"
Unset == "<unset>"

\* what a concrete output declares for __service__ and __config_service__
Variants ==
    { [service |-> sv, config |-> c] :
        sv \in {Unset, "slack", "s3"}, c \in {Unset, "aws-s3"} }

\* self.__service__: the variant's value, else line 45 of the base class
AttrService(v) ==
    IF v.service = Unset THEN NotImplementedV ELSE v.service

\* self.__config_service__: the variant's value, else line 46 of the base
\* class, which was bound to the base class's __service__
AttrConfigService(v) ==
    IF v.config = Unset THEN NotImplementedV ELSE v.config

\* the tuple of line 259 indexed the other way round
GetConfigServiceSwapped(v) ==
    LET pair == <<AttrConfigService(v), AttrService(v)>>
    IN  pair[IF AttrConfigService(v) = NotImplementedV THEN 1 ELSE 2]

\* get_config_service(), lines 259-260: a pair indexed by the comparison
GetConfigService(v) ==
    LET pair == <<AttrConfigService(v), AttrService(v)>>
    IN  pair[IF AttrConfigService(v) = NotImplementedV THEN 2 ELSE 1]

\* --------------------------------------------------- format_output_config
\* loaded output configurations: service name -> list of descriptors
ConfigChoices ==
    { EmptyMap,
      "slack" :> <<"ops">>,
      ("slack" :> <<"ops", "dev">>) @@ ("aws-s3" :> <<"logs">>),
      "aws-s3" :> <<>> }

\* props['descriptor'].value
DescriptorValues == {"alerts", "ops"}

\* dict.get(key, default)
DictGet(d, key, default) ==
    IF key \in DOMAIN d THEN d[key] ELSE default

\* the descriptor appended to the list stored in config
FormatOutputConfigInPlace(v, config, value) ==
    LET key == GetConfigService(v)
        extended == DictGet(config, key, <<>>) \o <<value>>
    IN  [result |-> extended,
         config |-> [k \in (DOMAIN config) \cup {key} |->
                        IF k = key THEN extended ELSE config[k]]]

\* format_output_config(config, props), line 272: the returned list and the
\* config mapping after the call
FormatOutputConfig(v, config, value) ==
    [result |-> DictGet(config, GetConfigService(v), <<>>) \o <<value>>,
     config |-> config]

\* --------------------------------------------------- _check_http_response
BoolVal(b) == [type |-> "bool", items |-> ("value" :> b)]

\* final HTTP statuses of a request
Statuses == {199, 200, 299, 300, 404, 500}

\* the resp argument: None or a response handle
Responses == {NoneVal} \cup { Response(c) : c \in Statuses }

\* _check_http_response(resp), line 229: resp and (200 <= resp.getcode() <= 299)
CheckHttpResponse(resp) ==
    IF resp.type = "none"
    THEN resp
    ELSE BoolVal(200 <= resp.items["code"] /\ resp.items["code"] <= 299)

\* ------------------------------------------------------- _request_helper
Urls == {"https://hooks/x", "https://hooks/y"}
Bodies == {"", "err"}

\* what the network does with the request: a final HTTP status with the
\* response body, or no connection at all
NetOutcomes ==
    { [kind |-> "status", code |-> s, body |-> b] : s \in Statuses, b \in Bodies }
    \cup { [kind |-> "conn_error", code |-> 0, body |-> ""] }

\* the headers argument: None (the default) or a dict
HeaderChoices == {"None", "dict"}

\* no helper method has been called yet
NoHelper == <<"none", <<>>, <<>>>>

NoRequest ==
    [url |-> "", headers |-> "None", verify |-> TRUE,
     net |-> [kind |-> "status", code |-> 200, body |-> ""],
     result |-> Running, carries |-> <<>>]

\* lines 215-219: the ssl context handed to urlopen
SslContext(verify) ==
    IF ~verify THEN "CERT_NONE" ELSE "None"

\* urllib2.Request(url, data=data, headers=headers): iterates headers.items()
UrllibRequest(headers) ==
    IF headers = "None" THEN Raised("AttributeError") ELSE Returned(NoneVal)

\* urllib2.urlopen: the response for a 2xx status, HTTPError for any other
\* status, URLError when the connection fails
UrlOpen(net) ==
    CASE net.kind = "conn_error" -> Raised("URLError")
      [] net.code >= 200 /\ net.code <= 299 -> Returned(Response(net.code))
      [] OTHER -> Raised("HTTPError")

\* _request_helper(url, data, headers, verify): the outcome and the fields
\* the raised OutputRequestFailure carries
RequestHelper(url, headers, verify, net) ==
    LET context == SslContext(verify)
        req == UrllibRequest(headers)
        resp == UrlOpen(net)
    IN  CASE req.kind = "raised" -> [result |-> req, carries |-> <<>>]
          [] resp.kind = "raised" /\ resp.exc = "HTTPError" ->
               [result |-> Raised("OutputRequestFailure"),
                carries |-> <<url, net.code, net.body>>]
          [] OTHER -> [result |-> resp, carries |-> <<>>]

\* ---------------------------------------------------------------- Init
Init ==
    /\ tempDir \in {"absent", "file", "dir"}
    /\ files \in [CredNames -> {"absent", "blob"}]
    /\ (tempDir # "dir" => \A n \in CredNames : files[n] = "absent")
    /\ defaults \in DefaultChoices
    /\ kmsReply \in KmsReplies
    /\ pc = [p \in Procs |-> "idle"]
    /\ desc = [p \in Procs |-> ""]
    /\ before = [p \in Procs |-> "absent"]
    /\ seen = [p \in Procs |-> "unknown"]
    /\ s3res = [p \in Procs |-> "none"]
    /\ fetches = [p \in Procs |-> 0]
    /\ logs = [p \in Procs |-> 0]
    /\ outcome = [p \in Procs |-> Running]
    /\ request = NoRequest
    /\ path = [p \in Procs |-> ""]
    /\ s3key = [p \in Procs |-> ""]
    /\ decrypts = [p \in Procs |-> 0]
    /\ helper = NoHelper

\* ---------------------------------------------------------------- steps
Goto(p, label) == pc' = [pc EXCEPT ![p] = label]

Finish(p, out) ==
    /\ pc' = [pc EXCEPT ![p] = "done"]
    /\ outcome' = [outcome EXCEPT ![p] = out]

\* no other dispatcher is inside a call
Solo == \A q \in Procs : pc[q] = "idle"

\* a dispatcher calls _load_creds(descriptor)
Begin(p) ==
    /\ pc[p] = "idle"
    /\ \E d \in Descriptors : desc' = [desc EXCEPT ![p] = d]
    /\ before' = [before EXCEPT ![p] = tempDir]
    /\ Goto(p, "ltd_check")
    /\ UNCHANGED <<tempDir, files, seen, s3res, fetches, logs, outcome>>
    /\ UNCHANGED <<path, s3key, decrypts>>
    /\ UNCHANGED envVars

SoloBegin(p) == Solo /\ Begin(p)

\* _local_temp_dir line 62: os.path.exists(temp_dir) and not os.path.isdir(temp_dir)
TempDirCheck(p) ==
    /\ pc[p] = "ltd_check"
    /\ Goto(p, IF tempDir = "file" THEN "ltd_remove" ELSE "ltd_exists")
    /\ UNCHANGED <<tempDir, files, outcome>>
    /\ UNCHANGED envVars
    /\ UNCHANGED callVars

\* os.remove left out: the entry stays where it is
TempDirRemoveKeeps(p) ==
    /\ pc[p] = "ltd_remove"
    /\ Goto(p, "ltd_exists")
    /\ UNCHANGED <<tempDir, files, outcome>>
    /\ UNCHANGED envVars
    /\ UNCHANGED callVars

\* line 63: os.remove(temp_dir); OSError when the entry is gone or is a directory
TempDirRemove(p) ==
    /\ pc[p] = "ltd_remove"
    /\ IF tempDir = "file"
       THEN /\ tempDir' = "absent"
            /\ Goto(p, "ltd_exists")
            /\ UNCHANGED outcome
       ELSE /\ Finish(p, Raised("OSError"))
            /\ UNCHANGED tempDir
    /\ UNCHANGED files
    /\ UNCHANGED envVars
    /\ UNCHANGED callVars

\* line 66: if not os.path.exists(temp_dir)
TempDirExists(p) ==
    /\ pc[p] = "ltd_exists"
    /\ Goto(p, IF tempDir = "absent" THEN "ltd_makedirs" ELSE "cred_exists")
    /\ UNCHANGED <<tempDir, files, outcome>>
    /\ UNCHANGED envVars
    /\ UNCHANGED callVars

\* line 67: os.makedirs(temp_dir); OSError when the path exists
TempDirMakedirs(p) ==
    /\ pc[p] = "ltd_makedirs"
    /\ IF tempDir = "absent"
       THEN /\ tempDir' = "dir"
            /\ Goto(p, "cred_exists")
            /\ UNCHANGED outcome
       ELSE /\ Finish(p, Raised("OSError"))
            /\ UNCHANGED tempDir
    /\ UNCHANGED files
    /\ UNCHANGED envVars
    /\ UNCHANGED callVars

\* the os.path.exists test of line 85 left out: every call downloads
CredExistsAlwaysFetch(p) ==
    /\ pc[p] = "cred_exists"
    /\ LET n == OutputCredName(desc[p])
           content == IF tempDir = "dir" THEN files[n] ELSE "absent"
       IN  /\ path' = [path EXCEPT ![p] = n]
           /\ seen' = [seen EXCEPT ![p] = content]
           /\ Goto(p, "s3_open")
    /\ UNCHANGED <<tempDir, files, outcome>>
    /\ UNCHANGED envVars
    /\ UNCHANGED <<desc, before, s3res, fetches, logs, s3key, decrypts>>

\* _load_creds lines 81-85: local_cred_location is the cache directory joined
\* with output_cred_name(descriptor); if not os.path.exists(local_cred_location)
CredExists(p) ==
    /\ pc[p] = "cred_exists"
    /\ LET n == OutputCredName(desc[p])
           content == IF tempDir = "dir" THEN files[n] ELSE "absent"
       IN  /\ path' = [path EXCEPT ![p] = n]
           /\ seen' = [seen EXCEPT ![p] = content]
           /\ Goto(p, IF content = "absent" THEN "s3_open" ELSE "read")
    /\ UNCHANGED <<tempDir, files, outcome>>
    /\ UNCHANGED envVars
    /\ UNCHANGED <<desc, before, s3res, fetches, logs, s3key, decrypts>>

\* _get_creds_from_s3 line 151: open(cred_location, 'wb')
S3Open(p) ==
    /\ pc[p] = "s3_open"
    /\ files' = [files EXCEPT ![path[p]] = OpenFile("wb", @)]
    /\ Goto(p, "s3_download")
    /\ UNCHANGED <<tempDir, outcome>>
    /\ UNCHANGED envVars
    /\ UNCHANGED callVars

\* the except clause left out: a ClientError of the download propagates
S3DownloadUnguarded(p) ==
    /\ pc[p] = "s3_download"
    /\ \E r \in S3Results :
         /\ s3res' = [s3res EXCEPT ![p] = r]
         /\ fetches' = [fetches EXCEPT ![p] = @ + 1]
         /\ s3key' = [s3key EXCEPT ![p] = OutputCredName(desc[p])]
         /\ IF r = "ok"
            THEN /\ files' = [files EXCEPT ![path[p]] = "blob"]
                 /\ Goto(p, "read")
                 /\ UNCHANGED outcome
            ELSE /\ Finish(p, Raised(r))
                 /\ UNCHANGED files
    /\ UNCHANGED <<tempDir, logs>>
    /\ UNCHANGED envVars
    /\ UNCHANGED <<desc, before, seen, path, decrypts>>

\* lines 152-160: download_fileobj into the open file; a ClientError is
\* logged and the method returns None, so _load_creds returns None (line 87)
S3Download(p) ==
    /\ pc[p] = "s3_download"
    /\ \E r \in S3Results :
         /\ s3res' = [s3res EXCEPT ![p] = r]
         /\ fetches' = [fetches EXCEPT ![p] = @ + 1]
         /\ s3key' = [s3key EXCEPT ![p] = OutputCredName(desc[p])]
         /\ CASE r = "ok" ->
                   /\ files' = [files EXCEPT ![path[p]] = "blob"]
                   /\ Goto(p, "read")
                   /\ UNCHANGED <<outcome, logs>>
              [] r = "ClientError" ->
                   /\ logs' = [logs EXCEPT ![p] = @ + 1]
                   /\ Finish(p, Returned(NoneVal))
                   /\ UNCHANGED files
              [] OTHER ->
                   /\ Finish(p, Raised("BotoCoreError"))
                   /\ UNCHANGED <<files, logs>>
    /\ UNCHANGED tempDir
    /\ UNCHANGED envVars
    /\ UNCHANGED <<desc, before, seen, path, decrypts>>

\* lines 89-105: open the cached file, read it, decrypt, parse, merge
ReadCreds(p) ==
    /\ pc[p] = "read"
    /\ LET n == path[p]
           opened == OpenFile(ReadOpenMode, files[n])
           rd == FileRead(ReadOpenMode, opened)
           res == IF rd.raised
                  THEN [out |-> Raised("IOError"), logs |-> 0]
                  ELSE LoadCredsTail(rd.data, kmsReply, defaults)
       IN  /\ files' = [files EXCEPT ![n] = opened]
           /\ logs' = [logs EXCEPT ![p] = @ + res.logs]
           /\ decrypts' = [decrypts EXCEPT ![p] = IF rd.raised THEN @ ELSE @ + 1]
           /\ Finish(p, res.out)
    /\ UNCHANGED tempDir
    /\ UNCHANGED envVars
    /\ UNCHANGED <<desc, before, seen, s3res, fetches, path, s3key>>

\* the caller takes the result; the dispatcher is free for its next call
Return(p) ==
    /\ pc[p] = "done"
    /\ Goto(p, "idle")
    /\ desc' = [desc EXCEPT ![p] = ""]
    /\ before' = [before EXCEPT ![p] = "absent"]
    /\ seen' = [seen EXCEPT ![p] = "unknown"]
    /\ s3res' = [s3res EXCEPT ![p] = "none"]
    /\ fetches' = [fetches EXCEPT ![p] = 0]
    /\ logs' = [logs EXCEPT ![p] = 0]
    /\ path' = [path EXCEPT ![p] = ""]
    /\ s3key' = [s3key EXCEPT ![p] = ""]
    /\ decrypts' = [decrypts EXCEPT ![p] = 0]
    /\ outcome' = [outcome EXCEPT ![p] = Running]
    /\ UNCHANGED <<tempDir, files>>
    /\ UNCHANGED envVars

\* a dispatch implementation calls _request_helper
Send ==
    /\ \E u \in Urls, h \in HeaderChoices, v \in BOOLEAN, net \in NetOutcomes :
         LET r == RequestHelper(u, h, v, net)
         IN  request' = [url |-> u, headers |-> h, verify |-> v, net |-> net,
                         result |-> r.result, carries |-> r.carries]
    /\ UNCHANGED <<tempDir, files, defaults, kmsReply, pc, outcome, helper>>
    /\ UNCHANGED callVars

\* ------------------------------------------------- calls of the helpers
helperFrame ==
    <<tempDir, files, defaults, kmsReply, pc, outcome, request, desc, before,
      seen, s3res, fetches, logs, path, s3key, decrypts>>

\* __init__ line 50: self._format_prefix(s3_prefix)
FormatPrefixCall ==
    /\ \E q \in Qualifiers :
         helper' = <<"_format_prefix", <<q>>, FormatPrefix(q)>>
    /\ UNCHANGED helperFrame

\* configuration tooling asks an output for its config service name
GetConfigServiceCall ==
    /\ \E v \in Variants :
         helper' = <<"get_config_service", <<v>>, GetConfigService(v)>>
    /\ UNCHANGED helperFrame

\* configuration tooling registers a new descriptor
FormatOutputConfigCall ==
    /\ \E v \in Variants, c \in ConfigChoices, d \in DescriptorValues :
         LET r == FormatOutputConfig(v, c, d)
         IN  helper' = <<"format_output_config", <<v, c, d>>,
                         <<r.result, r.config>>>>
    /\ UNCHANGED helperFrame

\* a dispatch implementation checks the response it got
CheckHttpResponseCall ==
    /\ \E r \in Responses :
         helper' = <<"_check_http_response", <<r>>, CheckHttpResponse(r)>>
    /\ UNCHANGED helperFrame

\* a caller asks an output for the name of its credentials
OutputCredNameCall ==
    /\ \E sv \in Services, d \in DescriptorArgs :
         helper' = <<"output_cred_name", <<sv, d>>, CredName(sv, d)>>
    /\ UNCHANGED helperFrame

\* ---------------------------------------------------------------- specs
\* one _load_creds call at a time (section 5: single-threaded, blocking)
Next ==
    \E p \in Procs :
        \/ SoloBegin(p)
        \/ TempDirCheck(p)
        \/ TempDirRemove(p)
        \/ TempDirExists(p)
        \/ TempDirMakedirs(p)
        \/ CredExists(p)
        \/ S3Open(p)
        \/ S3Download(p)
        \/ ReadCreds(p)
        \/ Return(p)

Spec == Init /\ [][Next]_vars

\* dispatchers sharing the cache directory, their calls interleaving; the
\* race does not depend on the content of the secret
InitConc ==
    /\ Init
    /\ defaults = Dict("b" :> 9)
    /\ kmsReply = [kind |-> "plaintext",
                   text |-> [form |-> "object", obj |-> ("a" :> 1) @@ ("b" :> 2)]]

NextConc ==
    \E p \in Procs :
        \/ Begin(p)
        \/ TempDirCheck(p)
        \/ TempDirRemove(p)
        \/ TempDirExists(p)
        \/ TempDirMakedirs(p)
        \/ CredExists(p)
        \/ S3Open(p)
        \/ S3Download(p)
        \/ ReadCreds(p)
        \/ Return(p)

SpecConc == InitConc /\ [][NextConc]_vars

\* calls of _request_helper
NextSend == Send

SpecSend == Init /\ [][NextSend]_vars

\* calls of the stateless helper methods; they do not touch the cache
InitPure ==
    /\ Init
    /\ tempDir = "absent"
    /\ defaults = NoneVal
    /\ kmsReply = [kind |-> "ClientError", text |-> [form |-> "empty", obj |-> EmptyMap]]

NextPure ==
    \/ FormatPrefixCall
    \/ GetConfigServiceCall
    \/ FormatOutputConfigCall
    \/ CheckHttpResponseCall

SpecPure == InitPure /\ [][NextPure]_vars

\* _load_creds calls, one at a time, and calls of output_cred_name
NextNames ==
    \/ Next
    \/ OutputCredNameCall

SpecNames == Init /\ [][NextNames]_vars

\* ---------------------------------------------------------------- properties
CredFile(p) == files[OutputCredName(desc[p])]

\* the key-management service decrypts the blob to a JSON object
SecretIsObject == kmsReply.kind = "plaintext" /\ kmsReply.text.form = "object"
Secret == kmsReply.text.obj

\* the items get_default_properties contributes
DefaultItems == IF defaults.type = "dict" THEN defaults.items ELSE EmptyMap

\* the decrypted, parsed secret with the defaults overlaid
Merged == [k \in (DOMAIN Secret) \cup (DOMAIN DefaultItems) |->
             IF k \in DOMAIN DefaultItems THEN DefaultItems[k] ELSE Secret[k]]

\* C1: a _load_creds call that finds the blob in the local cache makes no
\* remote fetch and returns the merged result (the decrypted, parsed blob
\* with the defaults overlaid), so two calls in a row return the same mapping.
C1_CacheHitReturnsMerged ==
    \A p \in Procs :
        (pc[p] = "done" /\ seen[p] = "blob" /\ SecretIsObject)
            => /\ fetches[p] = 0
               /\ outcome[p] = Returned(Dict(Merged))

\* C2: first use, cache directory absent, download and decryption succeed,
\* no defaults declared: the directory is created, the blob is in the cache
\* file and the call returns exactly the mapping parsed from the plaintext.
C2_FirstUseSucceeds ==
    \A p \in Procs :
        (/\ pc[p] = "done"
         /\ before[p] = "absent"
         /\ s3res[p] = "ok"
         /\ SecretIsObject
         /\ ~Truthy(defaults))
            => /\ tempDir = "dir"
               /\ CredFile(p) = "blob"
               /\ outcome[p] = Returned(Dict(Secret))

\* C3: resolution is all-or-nothing: every finished call returned either
\* None or the complete merged mapping of a successfully decrypted blob.
C3_AllOrNothing ==
    \A p \in Procs :
        pc[p] = "done"
            => \/ outcome[p] = Returned(NoneVal)
               \/ SecretIsObject /\ outcome[p] = Returned(Dict(Merged))

\* C4: when the blob is not cached and the download fails with a
\* ClientError (access error, not found), the call returns None, raises
\* nothing and has logged exactly one error.
C4_FetchFailureAbsent ==
    \A p \in Procs :
        (pc[p] = "done" /\ s3res[p] = "ClientError")
            => /\ seen[p] = "absent"
               /\ outcome[p] = Returned(NoneVal)
               /\ logs[p] = 1

C4_Witness ==
    \E p \in Procs :
        /\ pc[p] = "done"
        /\ seen[p] = "absent"
        /\ s3res[p] = "ClientError"
        /\ fetches[p] = 1
        /\ outcome[p] = Returned(NoneVal)

\* C5: no _load_creds call ends by raising an error to its caller.
C5_NeverRaises ==
    \A p \in Procs : outcome[p].kind # "raised"

\* C6: merge precedence: a call that had the blob (cached or downloaded) of
\* a secret that decrypts to the mapping P returns a mapping whose keys are
\* keys(P) union keys(D), with D's value on every key of D and P's value on
\* every other key.
C6_MergePrecedence ==
    \A p \in Procs :
        (pc[p] = "done" /\ (seen[p] = "blob" \/ s3res[p] = "ok") /\ SecretIsObject)
            => /\ outcome[p].kind = "returned"
               /\ outcome[p].value.type = "dict"
               /\ LET r == outcome[p].value.items
                  IN  /\ DOMAIN r = (DOMAIN Secret) \cup (DOMAIN DefaultItems)
                      /\ \A k \in DOMAIN DefaultItems : r[k] = DefaultItems[k]
                      /\ \A k \in (DOMAIN Secret) \ (DOMAIN DefaultItems) :
                             r[k] = Secret[k]

\* C7: once _local_temp_dir has returned, the cache path is a directory,
\* whatever was there when the call began, and no OSError was raised.
C7_CacheDirIsDirectory ==
    \A p \in Procs :
        pc[p] \in {"cred_exists", "s3_open", "s3_download", "read", "done"}
            => /\ tempDir = "dir"
               /\ outcome[p].exc # "OSError"

C7_Witness ==
    \E p \in Procs :
        /\ pc[p] = "cred_exists"
        /\ before[p] = "file"
        /\ tempDir = "dir"

\* C8: two concurrent calls for the same credential name: no call finds an
\* empty cache file, every call whose download succeeded returns the merged
\* mapping, and the cache file finally holds the complete blob.
C8_SameNameRaceHarmless ==
    \A p, q \in Procs :
        (/\ p # q
         /\ pc[p] = "done"
         /\ pc[q] = "done"
         /\ desc[p] = desc[q])
            => /\ seen[p] # "empty"
               /\ (s3res[p] = "ok" => outcome[p] = Returned(Dict(Merged)))
               /\ ((s3res[p] = "ok" \/ s3res[q] = "ok") => CredFile(p) = "blob")

\* C9: two concurrent calls for different credential names do not contend:
\* neither ends with an error.
C9_DifferentNamesIndependent ==
    \A p, q \in Procs :
        (/\ p # q
         /\ pc[p] = "done"
         /\ pc[q] = "done"
         /\ desc[p] # desc[q])
            => /\ outcome[p].kind # "raised"
               /\ outcome[q].kind # "raised"

\* C10: _request_helper either returns the response or raises
\* OutputRequestFailure; every error status and every connection error is
\* raised as OutputRequestFailure carrying url, status code and body.
C10_OnlyRequestFailure ==
    request.result.kind # "running"
        => /\ \/ request.result.kind = "returned"
              \/ request.result = Raised("OutputRequestFailure")
           /\ (request.net.kind = "conn_error"
                   => request.result = Raised("OutputRequestFailure"))
           /\ ((request.net.kind = "status" /\ request.result.kind = "raised")
                   => request.carries
                        = <<request.url, request.net.code, request.net.body>>)

\* the helper method called last, its arguments and what it returned
HelperFn == helper[1]
HelperArgs == helper[2]
HelperResult == helper[3]

\* positions of q at which the token occurs
Occurrences(q) ==
    { i \in 1..(Len(q) - Len(InfraToken) + 1) :
        SubSeq(q, i, i + Len(InfraToken) - 1) = InfraToken }

\* q without the token occurrences that start at the positions in occ, every
\* remaining '_' turned into '.'
RECURSIVE DottedWithout(_, _, _)
DottedWithout(q, occ, i) ==
    IF i > Len(q) THEN ""
    ELSE LET c == SubSeq(q, i, i)
             cut == \E j \in occ : j <= i /\ i < j + Len(InfraToken)
         IN  (IF cut THEN "" ELSE IF c = "_" THEN "." ELSE c)
                 \o DottedWithout(q, occ, i + 1)

\* C11 (as stated): _format_prefix takes out one occurrence of the token, also
\* when the qualifier holds several, and turns every remaining '_' into '.'.
C11_StripsExactlyOnce ==
    HelperFn = "_format_prefix"
        => LET q == HelperArgs[1]
           IN  IF Occurrences(q) = {}
               THEN HelperResult = DottedWithout(q, {}, 1)
               ELSE \E j \in Occurrences(q) :
                        HelperResult = DottedWithout(q, {j}, 1)

\* C11 (amended): _format_prefix takes out every occurrence of the token in
\* the qualifier and turns every remaining '_' into '.'.
C11_StripsEveryOccurrence ==
    HelperFn = "_format_prefix"
        => HelperResult = DottedWithout(HelperArgs[1], Occurrences(HelperArgs[1]), 1)

C11_Witness ==
    /\ HelperFn = "_format_prefix"
    /\ Cardinality(Occurrences(HelperArgs[1])) = 2
    /\ HelperArgs[1] = "prod" \o InfraToken \o InfraToken
    /\ HelperResult = "prod"

\* C12: format_output_config returns the descriptor list stored under
\* get_config_service() (the empty list when there is none) with the new
\* descriptor appended as last element, and leaves the config mapping and
\* the list stored in it as they were.
C12_AppendsWithoutMutation ==
    HelperFn = "format_output_config"
        => LET config == HelperArgs[2]
               value == HelperArgs[3]
               returned == HelperResult[1]
               configAfter == HelperResult[2]
               key == GetConfigService(HelperArgs[1])
               existing == IF key \in DOMAIN config THEN config[key] ELSE <<>>
           IN  /\ Len(returned) = Len(existing) + 1
               /\ \A i \in 1..Len(existing) : returned[i] = existing[i]
               /\ returned[Len(returned)] = value
               /\ configAfter = config

C12_Witness ==
    /\ HelperFn = "format_output_config"
    /\ HelperArgs = <<[service |-> "slack", config |-> Unset],
                      "slack" :> <<"ops">>, "alerts">>
    /\ HelperResult = <<(<<"ops", "alerts">>), "slack" :> <<"ops">>>>

\* C13: _check_http_response returns the boolean True iff the response is
\* not None and its status code is in [200, 299], and the boolean False
\* otherwise, the None response included.
C13_ReturnsBoolean ==
    HelperFn = "_check_http_response"
        => LET resp == HelperArgs[1]
           IN  HelperResult =
                 BoolVal(/\ resp.type = "response"
                         /\ resp.items["code"] >= 200
                         /\ resp.items["code"] <= 299)

\* C15: get_config_service returns the override when the variant declares
\* one and the service identifier otherwise; a variant that declares only
\* its service identifier never gets the NotImplemented sentinel.
C15_OverrideElseService ==
    HelperFn = "get_config_service"
        => LET v == HelperArgs[1]
           IN  /\ v.config # Unset => HelperResult = v.config
               /\ (v.config = Unset /\ v.service # Unset)
                      => HelperResult = v.service
               /\ v.service # Unset => HelperResult # NotImplementedV

C15_Witness ==
    /\ HelperFn = "get_config_service"
    /\ HelperArgs = <<[service |-> "slack", config |-> Unset]>>
    /\ HelperResult = "slack"

\* C14: output_cred_name gives the service alone when the descriptor is empty
\* or None and service_descriptor otherwise; _load_creds uses that one name
\* as the file name under the cache directory and as the remote object key.
C14_OneCredentialName ==
    /\ HelperFn = "output_cred_name"
          => LET sv == HelperArgs[1]
                 d == HelperArgs[2]
             IN  HelperResult = IF d \in {"", NoDescriptor}
                                THEN sv
                                ELSE sv \o "_" \o d
    /\ \A p \in Procs :
          /\ path[p] # ""
                => path[p] = IF desc[p] = ""
                             THEN Service
                             ELSE Service \o "_" \o desc[p]
          /\ s3key[p] # "" => s3key[p] = path[p]

C14_Witness ==
    /\ HelperFn = "output_cred_name"
    /\ HelperArgs = <<"aws-s3", "ops">>
    /\ HelperResult = "aws-s3_ops"
    /\ \E p \in Procs :
          /\ desc[p] = "alerts"
          /\ fetches[p] = 1
          /\ path[p] = "slack_alerts"
          /\ s3key[p] = "slack_alerts"

\* C16 (as stated): a call that finds the blob in the local cache leaves the
\* cached file as it was: it still holds the blob when the call has ended.
C16_CacheHitKeepsFile ==
    \A p \in Procs :
        (pc[p] = "done" /\ seen[p] = "blob") => CredFile(p) = "blob"

\* a failed download of this call
FetchFailed(p) == s3res[p] \in {"ClientError", "OtherError"}

\* C17: within one call there is at most one download attempt and at most
\* one decrypt attempt; the download is attempted only when the cache file
\* was absent; decrypt is attempted only in the read step that ends the call
\* and never after a failed download; a failure ends the call, which logs at
\* most one error.
C17_NoRetryStrictOrder ==
    \A p \in Procs :
        /\ fetches[p] <= 1
        /\ decrypts[p] <= 1
        /\ fetches[p] > 0 => seen[p] = "absent"
        /\ decrypts[p] > 0 => (pc[p] = "done" /\ ~FetchFailed(p))
        /\ FetchFailed(p) => (pc[p] = "done" /\ decrypts[p] = 0)
        /\ outcome[p].kind = "raised" => pc[p] = "done"
        /\ logs[p] <= 1

C17_Witness ==
    \E p \in Procs :
        /\ pc[p] = "done"
        /\ seen[p] = "absent"
        /\ s3res[p] = "OtherError"
        /\ fetches[p] = 1
        /\ decrypts[p] = 0
        /\ outcome[p] = Raised("BotoCoreError")

\* C18 (as stated): after a call whose download failed there is no file at
\* the credential's place in the cache directory.
C18_FailedFetchLeavesNoFile ==
    \A p \in Procs :
        (pc[p] = "done" /\ FetchFailed(p)) => CredFile(p) = "absent"

====
